---- MODULE Spec2Model ----
(***************************************************************************)
(* Ingestion / persistence pipeline of hik-camera-server2.                 *)
(*                                                                         *)
(* The entity store is the Database class (one shared SQLite connection).  *)
(* Every SQL statement is one atomic step on that connection; a store      *)
(* method that awaits between statements is a sequence of steps that other *)
(* requests may interleave with.  The HTTP handlers are modelled together  *)
(* with the store calls they make.                                         *)
(***************************************************************************)
EXTENDS Integers, FiniteSets, Sequences, Bags, TLC

\* ------------------------------------------------------------------ bounds
NumProcs == 2          \* requests that may be in flight at the same time
MaxSiteId == 2         \* cap on the AUTOINCREMENT counter of sites
MaxCameraId == 2       \* cap on the AUTOINCREMENT counter of cameras
MaxEventId == 2        \* cap on the AUTOINCREMENT counter of events
NumClients == 2        \* dashboard connections accepted over a run
MaxInFlight == 2       \* sendDashboardData calls that may be pending at once

Procs == 1..NumProcs
Clients == 1..NumClients

\* ------------------------------------------------------------ value model
Undefined == "undefined"   \* JS undefined: an absent query/body parameter
Null == "NULL"             \* SQL NULL / JS null in a TEXT column
NoId == 0                  \* SQL NULL / JS null in an INTEGER column
UndefinedId == -1          \* JS undefined where a row id is expected

SiteNames == {"A", "B"}
Channels == {"c1", "c2"}
Macs == {"m1"}

\* JS truthiness of a string-valued parameter: !v is true for undefined, ''
Falsy(v) == v \in {Undefined, ""}

\* node-sqlite3 leaves an undefined parameter unbound, which SQLite reads
\* as NULL; every other value is bound as it is
Bind(v) == IF v = Undefined THEN Null ELSE v

\* req.query of an ingestion request: the complete query of each channel,
\* and the queries that lack one required field or carry it empty
RequiredFields == {"channelID", "dateTime", "eventType", "licensePlate"}

ValidQuery(ch) ==
    [channelID |-> ch, dateTime |-> "T", eventType |-> "E",
     licensePlate |-> "P", macAddress |-> "m1"]

ValidQueries == {ValidQuery(ch) : ch \in Channels}

DefectiveQueries ==
    {[ValidQuery("c1") EXCEPT ![f] = v] : f \in RequiredFields, v \in {Undefined, ""}}

Queries == ValidQueries \cup DefectiveQueries

NoQuery ==
    [channelID |-> Undefined, dateTime |-> Undefined, eventType |-> Undefined,
     licensePlate |-> Undefined, macAddress |-> Undefined]

\* the name multer stores the attachment of a multipart field under (a
\* generated name in uploads/), per field name
StoredName ==
    ("licensePlateImage" :> "up1") @@ ("vehicleImage" :> "up2") @@
    ("detectionImage" :> "up3") @@ ("licensePlate" :> "up4") @@
    ("licensePlatePicture.jpg" :> "up5") @@ ("vehicle" :> "up6") @@
    ("vehiclePicture.jpg" :> "up7") @@ ("detection" :> "up8") @@
    ("detectionPicture.jpg" :> "up9")

\* the field names the multer middleware of an endpoint lets through into
\* req.files; the handler of server.js:96 has no multer
Accepted(ep) ==
    CASE ep = "event" -> {"licensePlateImage", "vehicleImage", "detectionImage"}
      [] ep = "hikV" -> {"licensePlate", "licensePlatePicture.jpg", "vehicle",
                         "vehiclePicture.jpg", "detection"}
      [] OTHER -> {}

\* req.files?.[name]?.[0]?.filename
FileAt(files, name) == IF name \in files THEN StoredName[name] ELSE Undefined

\* v || null
OrNull(v) == IF Falsy(v) THEN Null ELSE v

\* event.images?.licensePlate, ?.vehicle, ?.detection of an event object
\* that has no images property
NoImages ==
    [licensePlate |-> Undefined, vehicle |-> Undefined, detection |-> Undefined]

\* what insertEvent reads as event.images of the object the handler built:
\* server.js:937-964 fills images from the keys 'licensePlatePicture.jpg',
\* 'vehiclePicture.jpg', 'detectionPicture.jpg' of req.files; part_001:749-776
\* puts the filenames in eventData.licensePlateImage, vehicleImage,
\* detectionImage and sets no images property; server.js:96 sets none either
HandlerImages(ep, files) ==
    IF ep = "event"
      THEN [licensePlate |-> OrNull(FileAt(files, "licensePlatePicture.jpg")),
            vehicle |-> OrNull(FileAt(files, "vehiclePicture.jpg")),
            detection |-> OrNull(FileAt(files, "detectionPicture.jpg"))]
      ELSE NoImages

\* ingestion entry points: hikApp.post('/', '/hik') of server.js:96,
\* handleVehicleDetection of part_001:742, eventApp.post of server.js:914
HttpEndpoints == {"hik", "hikV", "event"}
\* "store": Database.insertEvent called with an event that carries a site_id
Endpoints == HttpEndpoints \cup {"store"}

VARIABLES
    sites,      \* rows of table sites: [id, name]
    cameras,    \* rows of table cameras: [id, channelID, macAddress, name, site_id]
    events,     \* rows of table events
    seq,        \* sqlite_sequence: last AUTOINCREMENT id per table
    inTx,       \* the shared connection has an open transaction
    txSnap,     \* the database as it was at BEGIN (what ROLLBACK restores)
    req,        \* per request slot: position and locals of the request
    conn,       \* per dashboard connection: socket state, interval, last message
    push,       \* bag of the sendDashboardData calls that are pending
    srv         \* "running", "closing" (shutdownServers awaits), "exited"

vars == <<sites, cameras, events, seq, inTx, txSnap, req, conn, push, srv>>

wsVars == <<conn, push, srv>>

Tables == [sites |-> sites, cameras |-> cameras, events |-> events]

DbState == [sites |-> sites, cameras |-> cameras, events |-> events, seq |-> seq]

NoTables == [sites |-> {}, cameras |-> {}, events |-> {}]

EmptyDb == [sites |-> {}, cameras |-> {}, events |-> {},
            seq |-> [sites |-> 0, cameras |-> 0, events |-> 0]]

\* locals of a request; seen, camsAdded, evsAdded, deleted, err and before
\* record what the request's own statements found and did
Idle ==
    [pc |-> "idle", op |-> "none", ep |-> "none", ev |-> NoQuery, sid |-> NoId,
     id |-> NoId, name |-> Undefined, status |-> 0, result |-> UndefinedId,
     lastID |-> UndefinedId, eventId |-> UndefinedId, invoked |-> FALSE,
     seen |-> FALSE, camsAdded |-> 0, evsAdded |-> 0, deleted |-> 0,
     changes |-> 0, err |-> "none", before |-> NoTables, rows |-> {},
     emitted |-> "none", broadcast |-> "none", delivered |-> {}, threw |-> 0,
     files |-> {}, images |-> NoImages]

\* a message on a dashboard socket; "none": nothing was sent yet
NoMsg == [type |-> "none", total |-> 0, sites |-> {}]

\* a dashboard socket: state is "none" before the connection event, "open"
\* while readyState is OPEN, "closed" from the close event on; timer is the
\* interval of the connection handler, cleared counts clearInterval calls,
\* extra counts the notification-triggered pushes since the last tick, last
\* is the last message the client received, failed tells that a snapshot
\* fetch for this connection was rejected since that message
NoConn == [state |-> "none", timer |-> FALSE, cleared |-> 0, extra |-> 0,
           last |-> NoMsg, failed |-> FALSE]

Init ==
    /\ sites = {}
    /\ cameras = {}
    /\ events = {}
    /\ seq = [sites |-> 0, cameras |-> 0, events |-> 0]
    /\ inTx = FALSE
    /\ txSnap = EmptyDb
    /\ req = [p \in Procs |-> Idle]
    /\ conn = [c \in Clients |-> NoConn]
    /\ push = EmptyBag
    /\ srv = "running"

\* A callback, the continuation of the handler that awaited it and the
\* response it sends run in one turn of the event loop: no other callback
\* runs between a request reaching "done" and its response being observed
NoPending == \A p \in Procs : req[p].pc # "done"

\* a new request takes the free slot with the lowest index
FreeSlot(p) ==
    /\ srv = "running"
    /\ NoPending
    /\ req[p].pc = "idle"
    /\ \A r \in Procs : r < p => req[r].pc # "idle"

\* ------------------------------------------------------- table constraints
\* table cameras without its UNIQUE(channelID) clause
CamerasUniqueNotDeclared(rows, ch) == FALSE

\* cameras: UNIQUE(channelID)
CamerasUniqueViolated(rows, ch) == \E c \in rows : c.channelID = ch

\* cameras: channelID TEXT NOT NULL
CamerasNotNullViolated(ch) == ch = Null

\* events: channelID, dateTime, eventType, licensePlate are TEXT NOT NULL
EventsNotNullViolated(e) ==
    \/ Bind(e.channelID) = Null
    \/ Bind(e.dateTime) = Null
    \/ Bind(e.eventType) = Null
    \/ Bind(e.licensePlate) = Null

\* ------------------------------------------------------------ broadcasts
\* wss.clients whose readyState is OPEN
OpenClients == {c \in Clients : conn[c].state = "open"}

\* sendDashboardData(ws) up to its first await: getEventStats is queued
NewPush(c) == [client |-> c, pc |-> "stats", total |-> 0, sites |-> {}]

\* wss.clients.forEach(client => { if (OPEN) sendDashboardData(client) })
BroadcastSnapshot ==
    /\ BagCardinality(push) + Cardinality(OpenClients) <= MaxInFlight
    /\ push' = push (+) SetToBag({NewPush(c) : c \in OpenClients})
    /\ conn' = [c \in Clients |->
                  IF c \in OpenClients THEN [conn[c] EXCEPT !.extra = @ + 1]
                  ELSE conn[c]]
    /\ UNCHANGED srv

\* broadcastUpdate(data): client.send for each OPEN client in the order of
\* wss.clients; when client.send throws for client bad the forEach ends
\* there (bad = 0: no send throws)
Reached(bad) == {c \in OpenClients : bad = 0 \/ c < bad}

Cue(type) == [NoMsg EXCEPT !.type = type]

CueTo(cs, type) ==
    [c \in Clients |-> IF c \in cs THEN [conn[c] EXCEPT !.last = Cue(type)]
                       ELSE conn[c]]

\* ------------------------------------------------------ ingestion handlers
\* the validation each handler does before it calls insertEvent
Validate(ep, q) ==
    CASE ep = "hik" -> TRUE
      [] ep = "hikV" -> ~Falsy(q.channelID) /\ ~Falsy(q.dateTime)
                          /\ ~Falsy(q.licensePlate)
      [] ep = "event" -> ~Falsy(q.channelID) /\ ~Falsy(q.dateTime)
                          /\ ~Falsy(q.eventType) /\ ~Falsy(q.licensePlate)
      [] OTHER -> TRUE

\* the lastID that insertEvent's run callback resolves with: the callback is
\* an arrow function, so `this` is the Database object, which has no lastID
DatabaseLastID == UndefinedId

\* eventId of the success response
ResponseEventId(ep, resolved) ==
    IF ep \in {"hik", "hikV"} THEN resolved ELSE UndefinedId

\* a handler that gives the event the site of the camera with its channelID
SiteIdOfCamera(q) ==
    IF \E c \in cameras : c.channelID = Bind(q.channelID)
      THEN (CHOOSE c \in cameras : c.channelID = Bind(q.channelID)).site_id
      ELSE NoId

\* event.site_id || null of the event object an HTTP handler builds from
\* req.query: no handler sets site_id, and none looks the camera up
HandlerSiteId(q) == NoId

\* an insertEvent that issues its INSERT INTO events without awaiting the
\* camera statement
ReceiveNoUpsert(p, ep, q, sid, files) ==
    /\ UNCHANGED wsVars
    /\ FreeSlot(p)
    /\ (ep # "store") => (sid = NoId)
    /\ files \subseteq Accepted(ep)
    /\ req' = [req EXCEPT ![p] = [Idle EXCEPT !.pc = "insert", !.op = "ingest",
                                      !.ep = ep, !.ev = q, !.sid = sid,
                                      !.invoked = TRUE, !.files = files,
                                      !.images = HandlerImages(ep, files)]]
    /\ UNCHANGED <<sites, cameras, events, seq, inTx, txSnap>>

\* a request with query q and attachments under the field names files
\* arrives at an ingestion handler, which validates, builds the event object
\* and calls insertEvent
Receive(p, ep, q, sid, files) ==
    /\ UNCHANGED wsVars
    /\ FreeSlot(p)
    /\ (ep # "store") => (sid = NoId)
    /\ files \subseteq Accepted(ep)
    /\ IF Validate(ep, q)
         THEN req' = [req EXCEPT ![p] = [Idle EXCEPT !.pc = "upsert", !.op = "ingest",
                                           !.ep = ep, !.ev = q,
                                           !.sid = IF ep = "store" THEN sid
                                                   ELSE HandlerSiteId(q),
                                           !.invoked = TRUE, !.files = files,
                                           !.images = HandlerImages(ep, files)]]
         ELSE req' = [req EXCEPT ![p] = [Idle EXCEPT !.pc = "done", !.op = "ingest",
                                           !.ep = ep, !.ev = q, !.status = 400,
                                           !.files = files]]
    /\ UNCHANGED <<sites, cameras, events, seq, inTx, txSnap>>

\* an ingestion request without attachments
IngestRequest(p, ep, q, sid) == Receive(p, ep, q, sid, {})

\* an ingestion request with attachments
IngestUpload(p, ep, q, files) == Receive(p, ep, q, NoId, files)

\* a conflicting INSERT that rewrote the row it conflicts with (ON CONFLICT
\* DO UPDATE) instead of skipping the new row
OnConflictUpdate(rows, new) ==
    {IF c.channelID = new.channelID THEN [new EXCEPT !.id = c.id] ELSE c : c \in rows}

\* INSERT OR IGNORE: on a constraint violation the new row is skipped and
\* the table keeps the rows it has
OnConflictIgnore(rows, new) == rows

\* insertEvent, first statement: INSERT OR IGNORE INTO cameras
InsertOrIgnoreCamera(p) ==
    /\ UNCHANGED wsVars
    /\ NoPending
    /\ req[p].pc = "upsert"
    /\ LET ch == Bind(req[p].ev.channelID)
           new == [id |-> seq.cameras + 1, channelID |-> ch,
                   macAddress |-> Bind(req[p].ev.macAddress),
                   name |-> Null, site_id |-> NoId]
           ignored == CamerasNotNullViolated(ch) \/ CamerasUniqueViolated(cameras, ch)
       IN  IF ignored
             THEN /\ cameras' = OnConflictIgnore(cameras, new)
                  /\ UNCHANGED seq
                  /\ req' = [req EXCEPT ![p].pc = "insert",
                                        ![p].seen = \E c \in cameras : c.channelID = ch]
             ELSE /\ seq.cameras < MaxCameraId
                  /\ cameras' = cameras \cup {new}
                  /\ seq' = [seq EXCEPT !.cameras = @ + 1]
                  /\ req' = [req EXCEPT ![p].pc = "insert",
                                        ![p].camsAdded =
                                            Cardinality(cameras') - Cardinality(cameras),
                                        ![p].seen = \E c \in cameras : c.channelID = ch]
    /\ UNCHANGED <<sites, events, inTx, txSnap>>

\* insertEvent, second statement: INSERT INTO events, its callback, and the
\* continuation of the handler that awaited insertEvent
InsertEventRow(p) ==
    /\ NoPending
    /\ req[p].pc = "insert"
    /\ IF EventsNotNullViolated(req[p].ev)
         THEN /\ req' = [req EXCEPT ![p].pc = "done", ![p].status = 500]
              /\ UNCHANGED <<events, seq>>
              /\ UNCHANGED wsVars
         ELSE /\ seq.events < MaxEventId
              /\ events' = events \cup
                     {[id |-> seq.events + 1,
                       channelID |-> Bind(req[p].ev.channelID),
                       dateTime |-> Bind(req[p].ev.dateTime),
                       eventType |-> Bind(req[p].ev.eventType),
                       licensePlate |-> Bind(req[p].ev.licensePlate),
                       macAddress |-> Bind(req[p].ev.macAddress),
                       licensePlateImage |-> Bind(req[p].images.licensePlate),
                       vehicleImage |-> Bind(req[p].images.vehicle),
                       detectionImage |-> Bind(req[p].images.detection),
                       site_id |-> req[p].sid]}
              /\ seq' = [seq EXCEPT !.events = @ + 1]
              /\ LET ok == [req[p] EXCEPT
                                !.pc = "done", !.status = 200,
                                !.lastID = seq.events + 1,
                                !.result = DatabaseLastID,
                                !.eventId = ResponseEventId(req[p].ep, DatabaseLastID),
                                !.evsAdded = Cardinality(events') - Cardinality(events),
                                !.emitted = "eventUpdate"]
                 IN  CASE req[p].ep = "hik" ->
                            \* server.js:112-121: the emit has no listener;
                            \* the handler starts a snapshot push per client
                            /\ BroadcastSnapshot
                            /\ req' = [req EXCEPT ![p] =
                                          [ok EXCEPT !.broadcast = "snapshot"]]
                        [] req[p].ep = "hikV" ->
                            \* part_001:138 emit -> part_001:676 listener ->
                            \* broadcastUpdate, inside the run callback; then
                            \* part_001:780 broadcastUpdate in the handler
                            \E bad \in {0} \cup OpenClients, at \in {"emit", "handler"} :
                              LET first == IF at = "emit" THEN Reached(bad)
                                           ELSE OpenClients
                                  second == IF at = "emit" /\ bad # 0 THEN {}
                                            ELSE Reached(bad)
                              IN  /\ conn' = CueTo(first \cup second, "event_update")
                                  /\ UNCHANGED <<push, srv>>
                                  /\ req' = [req EXCEPT ![p] =
                                        IF bad = 0
                                          THEN [ok EXCEPT !.broadcast = "event_update",
                                                          !.delivered = first \cup second]
                                        ELSE IF at = "emit"
                                          \* the exception leaves the callback:
                                          \* resolve is never called, no response
                                          THEN [ok EXCEPT !.status = 0,
                                                          !.err = "uncaught",
                                                          !.result = UndefinedId,
                                                          !.eventId = UndefinedId,
                                                          !.broadcast = "event_update",
                                                          !.delivered = first \cup second,
                                                          !.threw = bad]
                                          \* caught by the handler: next(error)
                                          ELSE [ok EXCEPT !.status = 500,
                                                          !.eventId = UndefinedId,
                                                          !.broadcast = "event_update",
                                                          !.delivered = first \cup second,
                                                          !.threw = bad]]
                        [] OTHER ->
                            /\ UNCHANGED wsVars
                            /\ req' = [req EXCEPT ![p] = ok]
    /\ UNCHANGED <<sites, cameras, inTx, txSnap>>

\* the response has been sent; the slot is free for the next request
Return(p) ==
    /\ UNCHANGED wsVars
    /\ req[p].pc = "done"
    /\ req' = [req EXCEPT ![p] = Idle]
    /\ UNCHANGED <<sites, cameras, events, seq, inTx, txSnap>>

\* ------------------------------------------------------- site management
\* INSERT OR IGNORE INTO sites skips the row only on a constraint conflict;
\* table sites declares id INTEGER PRIMARY KEY AUTOINCREMENT, name TEXT,
\* description TEXT: no constraint involves name
SitesInsertIgnored(rows, name) == FALSE

\* SELECT id FROM sites WHERE name = ? (db.get: the first matching row)
SiteIdByName(rows, name) ==
    LET ids == {s.id : s \in {r \in rows : r.name = name}}
    IN  IF ids = {} THEN UndefinedId
        ELSE CHOOSE i \in ids : \A j \in ids : i <= j

\* POST /api/sites: createOrGetSite(name, description)
CreateOrGetSite(p, name) ==
    /\ FreeSlot(p)
    /\ IF Falsy(name)
         THEN /\ req' = [req EXCEPT ![p] = [Idle EXCEPT !.pc = "done",
                            !.op = "createOrGetSite", !.name = name, !.status = 400]]
              /\ UNCHANGED <<sites, seq>>
              /\ UNCHANGED wsVars
         ELSE IF SitesInsertIgnored(sites, name)
                THEN /\ req' = [req EXCEPT ![p] = [Idle EXCEPT !.pc = "done",
                                   !.op = "createOrGetSite", !.name = name,
                                   !.status = 201,
                                   !.result = SiteIdByName(sites, name),
                                   !.broadcast = "snapshot"]]
                     /\ UNCHANGED <<sites, seq>>
                     /\ BroadcastSnapshot
                ELSE /\ seq.sites < MaxSiteId
                     /\ sites' = sites \cup {[id |-> seq.sites + 1, name |-> name]}
                     /\ seq' = [seq EXCEPT !.sites = @ + 1]
                     /\ req' = [req EXCEPT ![p] = [Idle EXCEPT !.pc = "done",
                                   !.op = "createOrGetSite", !.name = name,
                                   !.status = 201, !.result = seq.sites + 1,
                                   !.emitted = "siteUpdate",
                                   !.broadcast = "snapshot"]]
                     /\ BroadcastSnapshot
    /\ UNCHANGED <<cameras, events, inTx, txSnap>>

\* PUT /api/sites/:id: updateSite(id, name, description)
UpdateSite(p, id, name) ==
    /\ UNCHANGED wsVars
    /\ FreeSlot(p)
    /\ IF Falsy(name)
         THEN /\ req' = [req EXCEPT ![p] = [Idle EXCEPT !.pc = "done",
                            !.op = "updateSite", !.id = id, !.name = name,
                            !.status = 400]]
              /\ UNCHANGED sites
         ELSE /\ sites' = {IF s.id = id THEN [s EXCEPT !.name = name] ELSE s :
                              s \in sites}
              /\ req' = [req EXCEPT ![p] = [Idle EXCEPT !.pc = "done",
                            !.op = "updateSite", !.id = id, !.name = name,
                            !.status = 200, !.emitted = "siteUpdate",
                            !.changes = Cardinality({s \in sites : s.id = id})]]
    /\ UNCHANGED <<cameras, events, seq, inTx, txSnap>>

\* ----------------------------------------------------- camera management
\* POST /api/cameras: addCamera({channelID, macAddress, name, description, site_id})
AddCamera(p, ch, mac, name, sid) ==
    /\ UNCHANGED wsVars
    /\ FreeSlot(p)
    /\ IF Falsy(ch) \/ sid = NoId
         THEN /\ req' = [req EXCEPT ![p] = [Idle EXCEPT !.pc = "done",
                            !.op = "addCamera", !.status = 400]]
              /\ UNCHANGED <<cameras, seq>>
         ELSE IF CamerasNotNullViolated(Bind(ch)) \/ CamerasUniqueViolated(cameras, Bind(ch))
                THEN /\ req' = [req EXCEPT ![p] = [Idle EXCEPT !.pc = "done",
                                   !.op = "addCamera", !.status = 500]]
                     /\ UNCHANGED <<cameras, seq>>
                ELSE /\ seq.cameras < MaxCameraId
                     /\ cameras' = cameras \cup
                            {[id |-> seq.cameras + 1, channelID |-> Bind(ch),
                              macAddress |-> Bind(mac), name |-> Bind(name),
                              site_id |-> sid]}
                     /\ seq' = [seq EXCEPT !.cameras = @ + 1]
                     /\ req' = [req EXCEPT ![p] = [Idle EXCEPT !.pc = "done",
                                   !.op = "addCamera", !.status = 201,
                                   !.lastID = seq.cameras + 1,
                                   !.result = DatabaseLastID,
                                   !.emitted = "cameraUpdate"]]
    /\ UNCHANGED <<sites, events, inTx, txSnap>>

\* PUT /api/cameras/:id: updateCamera(id, {name, description, site_id})
UpdateCamera(p, id, name, sid) ==
    /\ UNCHANGED wsVars
    /\ FreeSlot(p)
    /\ cameras' = {IF c.id = id THEN [c EXCEPT !.name = Bind(name), !.site_id = sid]
                   ELSE c : c \in cameras}
    /\ req' = [req EXCEPT ![p] = [Idle EXCEPT !.pc = "done", !.op = "updateCamera",
                                     !.id = id, !.status = 200,
                                     !.emitted = "cameraUpdate",
                                     !.changes = Cardinality({c \in cameras :
                                                                c.id = id})]]
    /\ UNCHANGED <<sites, events, seq, inTx, txSnap>>

\* DELETE /api/cameras/:id: deleteCamera(id)
DeleteCamera(p, id) ==
    /\ UNCHANGED wsVars
    /\ FreeSlot(p)
    /\ cameras' = {c \in cameras : c.id # id}
    /\ req' = [req EXCEPT ![p] = [Idle EXCEPT !.pc = "done", !.op = "deleteCamera",
                                     !.id = id, !.status = 204,
                                     !.emitted = "cameraUpdate",
                                     !.changes = Cardinality({c \in cameras :
                                                                c.id = id})]]
    /\ UNCHANGED <<sites, events, seq, inTx, txSnap>>

\* ------------------------------------------------------------- deleteSite
\* DELETE /api/sites/:id calls deleteSite(id): BEGIN TRANSACTION on the
\* shared connection; SQLite refuses a BEGIN inside an open transaction
DeleteSiteBegin(p, id) ==
    /\ UNCHANGED wsVars
    /\ FreeSlot(p)
    /\ IF inTx
         THEN /\ req' = [req EXCEPT ![p] = [Idle EXCEPT !.pc = "done",
                            !.op = "deleteSite", !.id = id, !.err = "begin",
                            !.status = 500]]
              /\ UNCHANGED <<inTx, txSnap>>
         ELSE /\ inTx' = TRUE
              /\ txSnap' = DbState
              /\ req' = [req EXCEPT ![p] = [Idle EXCEPT !.pc = "ds_events",
                            !.op = "deleteSite", !.id = id, !.before = Tables]]
    /\ UNCHANGED <<sites, cameras, events, seq>>

\* DELETE FROM events WHERE site_id = ?
DeleteEvents(p, fail) ==
    /\ UNCHANGED wsVars
    /\ NoPending
    /\ req[p].pc = "ds_events"
    /\ IF fail
         THEN /\ req' = [req EXCEPT ![p].pc = "ds_rollback", ![p].err = "events"]
              /\ UNCHANGED events
         ELSE /\ events' = {e \in events : e.site_id # req[p].id}
              /\ req' = [req EXCEPT ![p].pc = "ds_cameras",
                            ![p].deleted = @ + Cardinality({e \in events :
                                                   e.site_id = req[p].id})]
    /\ UNCHANGED <<sites, cameras, seq, inTx, txSnap>>

\* DELETE FROM cameras WHERE site_id = ?
DeleteCameras(p, fail) ==
    /\ UNCHANGED wsVars
    /\ NoPending
    /\ req[p].pc = "ds_cameras"
    /\ IF fail
         THEN /\ req' = [req EXCEPT ![p].pc = "ds_rollback", ![p].err = "cameras"]
              /\ UNCHANGED cameras
         ELSE /\ cameras' = {c \in cameras : c.site_id # req[p].id}
              /\ req' = [req EXCEPT ![p].pc = "ds_site",
                            ![p].deleted = @ + Cardinality({c \in cameras :
                                                   c.site_id = req[p].id})]
    /\ UNCHANGED <<sites, events, seq, inTx, txSnap>>

\* DELETE FROM sites WHERE id = ?
DeleteSiteRecord(p, fail) ==
    /\ UNCHANGED wsVars
    /\ NoPending
    /\ req[p].pc = "ds_site"
    /\ IF fail
         THEN /\ req' = [req EXCEPT ![p].pc = "ds_rollback", ![p].err = "site"]
              /\ UNCHANGED sites
         ELSE /\ sites' = {s \in sites : s.id # req[p].id}
              /\ req' = [req EXCEPT ![p].pc = "ds_commit",
                            ![p].changes = Cardinality({s \in sites :
                                                   s.id = req[p].id})]
    /\ UNCHANGED <<cameras, events, seq, inTx, txSnap>>

\* COMMIT; on success deleteSite resolves and the handler answers 204
Commit(p, fail) ==
    /\ UNCHANGED wsVars
    /\ NoPending
    /\ req[p].pc = "ds_commit"
    /\ IF fail
         THEN /\ req' = [req EXCEPT ![p].pc = "ds_rollback", ![p].err = "commit"]
              /\ UNCHANGED <<inTx, txSnap>>
         ELSE /\ inTx' = FALSE
              /\ txSnap' = EmptyDb
              /\ req' = [req EXCEPT ![p].pc = "done", ![p].status = 204,
                                    ![p].result = req[p].changes,
                                    ![p].emitted = "siteUpdate"]
    /\ UNCHANGED <<sites, cameras, events, seq>>

\* the failure path rejecting without issuing ROLLBACK
RollbackNotIssued(p) ==
    /\ UNCHANGED wsVars
    /\ NoPending
    /\ req[p].pc = "ds_rollback"
    /\ req' = [req EXCEPT ![p].pc = "done", ![p].status = 500]
    /\ UNCHANGED <<sites, cameras, events, seq, inTx, txSnap>>

\* ROLLBACK undoes every statement run on the connection since BEGIN; its
\* callback rejects deleteSite and the handler answers 500
Rollback(p) ==
    /\ UNCHANGED wsVars
    /\ NoPending
    /\ req[p].pc = "ds_rollback"
    /\ IF inTx
         THEN /\ sites' = txSnap.sites
              /\ cameras' = txSnap.cameras
              /\ events' = txSnap.events
              /\ seq' = txSnap.seq
              /\ inTx' = FALSE
              /\ txSnap' = EmptyDb
         ELSE UNCHANGED <<sites, cameras, events, seq, inTx, txSnap>>
    /\ req' = [req EXCEPT ![p].pc = "done", ![p].status = 500]

\* ------------------------------------------------------------------ reads
\* getSiteStats(): one row per site with the number of events and cameras
\* that reference it, read on the shared connection
SiteStats ==
    {[id |-> s.id,
      total_events |-> Cardinality({e \in events : e.site_id = s.id}),
      camera_count |-> Cardinality({c \in cameras : c.site_id = s.id})] :
        s \in sites}

GetSiteStats(p) ==
    /\ UNCHANGED wsVars
    /\ FreeSlot(p)
    /\ req' = [req EXCEPT ![p] = [Idle EXCEPT !.pc = "done", !.op = "getSiteStats",
                                     !.status = 200, !.rows = SiteStats]]
    /\ UNCHANGED <<sites, cameras, events, seq, inTx, txSnap>>

\* ---------------------------------------------------- dashboard sessions
dbVars == <<sites, cameras, events, seq, inTx, txSnap>>

\* a connection handler that sends the initial data but sets no interval
ConnectWithoutInterval(c) ==
    /\ srv = "running"
    /\ NoPending
    /\ conn[c].state = "none"
    /\ \A d \in Clients : d < c => conn[d].state # "none"
    /\ BagCardinality(push) < MaxInFlight
    /\ conn' = [conn EXCEPT ![c] = [NoConn EXCEPT !.state = "open"]]
    /\ push' = push (+) SetToBag({NewPush(c)})
    /\ UNCHANGED <<dbVars, req, srv>>

\* wss.on('connection'): sendDashboardData(ws), then setInterval(..., 5000);
\* wss.clients keeps the sockets in the order they connected
Connect(c) ==
    /\ srv = "running"
    /\ NoPending
    /\ conn[c].state = "none"
    /\ \A d \in Clients : d < c => conn[d].state # "none"
    /\ BagCardinality(push) < MaxInFlight
    /\ conn' = [conn EXCEPT ![c] = [NoConn EXCEPT !.state = "open", !.timer = TRUE]]
    /\ push' = push (+) SetToBag({NewPush(c)})
    /\ UNCHANGED <<dbVars, req, srv>>

\* ws.on('close'): clearInterval(updateInterval); the socket leaves
\* wss.clients and its readyState is CLOSED
Close(c) ==
    /\ NoPending
    /\ conn[c].state = "open"
    /\ conn' = [conn EXCEPT ![c].state = "closed", ![c].timer = FALSE,
                            ![c].cleared = @ + 1]
    /\ UNCHANGED <<dbVars, req, push, srv>>

\* the interval callback: sendDashboardData(ws)
Tick(c) ==
    /\ NoPending
    /\ srv # "exited"
    /\ conn[c].timer
    /\ BagCardinality(push) < MaxInFlight
    /\ push' = push (+) SetToBag({NewPush(c)})
    /\ conn' = [conn EXCEPT ![c].extra = 0]
    /\ UNCHANGED <<dbVars, req, srv>>

\* db.close() has run: every later statement fails
DbClosed == srv # "running"

\* a sendDashboardData whose rejected read escaped its catch and took the
\* interval of the connection down with it
ReadEventStatsUncaught(q, reject) ==
    /\ NoPending
    /\ srv # "exited"
    /\ BagIn(q, push) /\ q.pc = "stats"
    /\ IF DbClosed \/ reject
         THEN /\ push' = push (-) SetToBag({q})
              /\ conn' = [conn EXCEPT ![q.client].failed = TRUE,
                                      ![q.client].timer = FALSE]
         ELSE /\ push' = (push (-) SetToBag({q})) (+)
                           SetToBag({[q EXCEPT !.pc = "sites",
                                               !.total = Cardinality(events)]})
              /\ UNCHANGED conn
    /\ UNCHANGED <<dbVars, req, srv>>

\* sendDashboardData: getEventStats has answered, getSiteStats is queued; a
\* rejected read (reject, or any read once the database is closed) ends the
\* call in its catch
ReadEventStats(q, reject) ==
    /\ NoPending
    /\ srv # "exited"
    /\ BagIn(q, push) /\ q.pc = "stats"
    /\ IF DbClosed \/ reject
         THEN /\ push' = push (-) SetToBag({q})
              /\ conn' = [conn EXCEPT ![q.client].failed = TRUE]
         ELSE /\ push' = (push (-) SetToBag({q})) (+)
                           SetToBag({[q EXCEPT !.pc = "sites",
                                               !.total = Cardinality(events)]})
              /\ UNCHANGED conn
    /\ UNCHANGED <<dbVars, req, srv>>

\* the message of sendDashboardData
Snapshot(q) == [type |-> "dashboard_update", total |-> q.total, sites |-> SiteStats]

\* sendDashboardData: getSiteStats has answered and ws.send is called, with
\* no look at readyState; a rejected read, or a send that throws, as on a
\* closed socket, ends in the catch
ReadSiteStatsAndSend(q, reject, fail) ==
    /\ NoPending
    /\ srv # "exited"
    /\ BagIn(q, push) /\ q.pc = "sites"
    /\ push' = push (-) SetToBag({q})
    /\ IF DbClosed \/ reject
         THEN conn' = [conn EXCEPT ![q.client].failed = TRUE]
         ELSE IF conn[q.client].state = "open" /\ ~fail
                THEN conn' = [conn EXCEPT ![q.client].last = Snapshot(q),
                                         ![q.client].failed = FALSE]
                ELSE UNCHANGED conn
    /\ UNCHANGED <<dbVars, req, srv>>

\* SIGTERM / SIGINT: shutdownServers closes the HTTP servers and the
\* database and awaits; server.close() only stops listening, its callback
\* waits for every socket, the dashboard sockets included, to end.  The
\* signal is taken to arrive while no HTTP request is in flight.
Shutdown ==
    /\ NoPending
    /\ srv = "running"
    /\ \A p \in Procs : req[p].pc = "idle"
    /\ srv' = "closing"
    /\ UNCHANGED <<dbVars, req, conn, push>>

\* the awaited closes have resolved: process.exit(0)
Exit ==
    /\ srv = "closing"
    /\ OpenClients = {}
    /\ srv' = "exited"
    /\ UNCHANGED <<dbVars, req, conn, push>>

\* --------------------------------------------------------- specifications
SiteIds == 1..MaxSiteId
CameraIds == 1..MaxCameraId

\* steps of requests that are already in flight
IngestSteps ==
    \/ \E p \in Procs : InsertOrIgnoreCamera(p)
    \/ \E p \in Procs : InsertEventRow(p)

DeleteSiteSteps ==
    \/ \E p \in Procs, fail \in BOOLEAN : DeleteEvents(p, fail)
    \/ \E p \in Procs, fail \in BOOLEAN : DeleteCameras(p, fail)
    \/ \E p \in Procs, fail \in BOOLEAN : DeleteSiteRecord(p, fail)
    \/ \E p \in Procs, fail \in BOOLEAN : Commit(p, fail)
    \/ \E p \in Procs : Rollback(p)

\* site management: create, rename, delete and read sites
NextSites ==
    \/ \E p \in Procs, n \in SiteNames \cup {Undefined} : CreateOrGetSite(p, n)
    \/ \E p \in Procs, i \in SiteIds, n \in SiteNames \cup {Undefined} :
          UpdateSite(p, i, n)
    \/ \E p \in Procs, i \in SiteIds : DeleteSiteBegin(p, i)
    \/ DeleteSiteSteps
    \/ \E p \in Procs : GetSiteStats(p)
    \/ \E p \in Procs : Return(p)

SpecSites == Init /\ [][NextSites]_vars

\* cascade delete of a site next to the requests that give it cameras and
\* events, and to readers
NextCascade ==
    \/ \E p \in Procs : CreateOrGetSite(p, "A")
    \/ \E p \in Procs : AddCamera(p, "c2", Undefined, Undefined, 1)
    \/ \E p \in Procs : IngestRequest(p, "store", ValidQuery("c1"), 1)
    \/ IngestSteps
    \/ \E p \in Procs, i \in SiteIds : DeleteSiteBegin(p, i)
    \/ DeleteSiteSteps
    \/ \E p \in Procs : GetSiteStats(p)
    \/ \E p \in Procs : Return(p)

SpecCascade == Init /\ [][NextCascade]_vars

\* the HTTP ingestion endpoints with complete and defective queries
NextIngest ==
    \/ \E p \in Procs, ep \in HttpEndpoints, q \in Queries :
          IngestRequest(p, ep, q, NoId)
    \/ IngestSteps
    \/ \E p \in Procs : Return(p)

SpecIngest == Init /\ [][NextIngest]_vars

\* every operation that writes table cameras
NextCameras ==
    \/ \E p \in Procs, q \in ValidQueries : IngestRequest(p, "hik", q, NoId)
    \/ IngestSteps
    \/ \E p \in Procs, ch \in Channels : AddCamera(p, ch, Undefined, Undefined, 1)
    \/ \E p \in Procs, i \in CameraIds, sid \in {NoId, 1} :
          UpdateCamera(p, i, Undefined, sid)
    \/ \E p \in Procs, i \in CameraIds : DeleteCamera(p, i)
    \/ \E p \in Procs : DeleteSiteBegin(p, 1)
    \/ DeleteSiteSteps
    \/ \E p \in Procs : Return(p)

SpecCameras == Init /\ [][NextCameras]_vars

\* the ingestion endpoints that take multipart attachments
NextUpload ==
    \/ \E p \in Procs, ep \in {"event", "hikV"} :
          \E files \in SUBSET Accepted(ep) :
              IngestUpload(p, ep, ValidQuery("c1"), files)
    \/ IngestSteps
    \/ \E p \in Procs : Return(p)

SpecUpload == Init /\ [][NextUpload]_vars

\* the pending sendDashboardData calls go on; rejects tells whether a read
\* on the open database may be rejected
FetchSteps(rejects) ==
    \/ \E q \in BagToSet(push), reject \in rejects : ReadEventStats(q, reject)
    \/ \E q \in BagToSet(push), reject \in rejects, fail \in BOOLEAN :
          ReadSiteStatsAndSend(q, reject, fail)

PushSteps == FetchSteps({FALSE})

SessionSteps ==
    \/ \E c \in Clients : Connect(c)
    \/ \E c \in Clients : Close(c)
    \/ \E c \in Clients : Tick(c)
    \/ PushSteps

\* dashboard sessions of server.js next to ingestion, which changes what
\* the snapshot shows
NextDashboard ==
    \/ SessionSteps
    \/ \E p \in Procs : IngestRequest(p, "hik", ValidQuery("c1"), NoId)
    \/ IngestSteps
    \/ \E p \in Procs : Return(p)

SpecDashboard == Init /\ [][NextDashboard]_vars

\* dashboard sessions of server.js next to site management
NextSiteBoard ==
    \/ SessionSteps
    \/ \E p \in Procs : CreateOrGetSite(p, "A")
    \/ \E p \in Procs : UpdateSite(p, 1, "B")
    \/ \E p \in Procs : Return(p)

SpecSiteBoard == Init /\ [][NextSiteBoard]_vars

\* dashboard sessions and a server shutdown
NextShutdown ==
    \/ SessionSteps
    \/ FetchSteps({TRUE})
    \/ Shutdown
    \/ Exit

SpecShutdown == Init /\ [][NextShutdown]_vars

\* dashboard sessions next to the ingestion handler of part_001, whose
\* server subscribes to the store's events
NextCues ==
    \/ SessionSteps
    \/ \E p \in Procs : IngestRequest(p, "hikV", ValidQuery("c1"), NoId)
    \/ IngestSteps
    \/ \E p \in Procs : Return(p)

SpecCues == Init /\ [][NextCues]_vars

\* ------------------------------------------------------------------ claims
Done(p, op) == req[p].pc = "done" /\ req[p].op = op

RowsNamed(n) == {s \in sites : s.name = n}

\* C1: when createOrGetSite(n, ...) has returned, table sites holds exactly
\* one row with name n and the call returned the id of that row (so every
\* call for n returns the same id).
C1_CreateOrGetSiteIdempotent ==
    \A p \in Procs :
        (Done(p, "createOrGetSite") /\ req[p].status = 201) =>
            /\ Cardinality(RowsNamed(req[p].name)) = 1
            /\ \A s \in RowsNamed(req[p].name) : s.id = req[p].result

\* C2: in the state in which deleteSite(id) has returned successfully for a
\* site that existed, no camera row and no event row has site_id = id and no
\* site row has that id.
C2_DeleteSiteLeavesNoReference ==
    \A p \in Procs :
        ( /\ Done(p, "deleteSite") /\ req[p].status = 204
          /\ \E s \in req[p].before.sites : s.id = req[p].id )
        =>  /\ \A c \in cameras : c.site_id # req[p].id
            /\ \A e \in events : e.site_id # req[p].id
            /\ \A s \in sites : s.id # req[p].id

DeleteSitePcs == {"ds_events", "ds_cameras", "ds_site", "ds_commit", "ds_rollback"}

\* C3: a getSiteStats read that runs while deleteSite(id) is in progress never
\* returns a row for site id once the cascade has removed events or cameras
\* of that site: the reader sees the site with all its dependents or not at
\* all.
C3_NoPartialCascadeObserved ==
    [][\A p \in Procs, d \in Procs :
          ( /\ req[p].pc = "idle" /\ req'[p].pc = "done"
            /\ req'[p].op = "getSiteStats"
            /\ req[d].op = "deleteSite" /\ req[d].pc \in DeleteSitePcs
            /\ req[d].deleted > 0 )
          => \A r \in req'[p].rows : r.id # req[d].id]_vars

\* C4: when one of the three DELETE statements of deleteSite, or its COMMIT,
\* has failed, deleteSite rejects (the handler answers 500) and the sites,
\* cameras and events tables are exactly as they were before the call.
C4_FailedDeleteSiteKeepsNothing ==
    \A p \in Procs :
        (Done(p, "deleteSite") /\ req[p].err \in {"events", "cameras", "site", "commit"}) =>
            /\ req[p].status = 500
            /\ Tables = req[p].before

\* a deleteSite whose statements had removed rows has failed and returned
C4_Witness ==
    \E p \in Procs :
        /\ Done(p, "deleteSite")
        /\ req[p].err \in {"site", "commit"}
        /\ req[p].deleted > 0
        /\ req[p].before.cameras # {}
        /\ req[p].before.events # {}

\* C5: no two camera rows share the same channelID, and the camera upsert of
\* insertEvent adds no camera row when a row with the event's channelID
\* exists.
C5_ChannelIdUnique ==
    /\ [](\A a \in cameras, b \in cameras : a.channelID = b.channelID => a = b)
    /\ [][\A p \in Procs :
            ( /\ req[p].pc = "upsert" /\ req'[p].pc = "insert"
              /\ \E c \in cameras : c.channelID = Bind(req[p].ev.channelID) )
            => cameras' = cameras]_vars

\* the upsert of an insertEvent has found its channelID taken, next to a
\* second camera
C5_Witness ==
    \E p \in Procs :
        /\ req[p].pc = "insert"
        /\ req[p].seen
        /\ req[p].camsAdded = 0
        /\ Cardinality(cameras) = 2

\* C11: the camera upsert of insertEvent leaves every camera row that has
\* the event's channelID as it was: same name, site_id, macAddress and id.
C11_UpsertKeepsExistingCamera ==
    [][\A p \in Procs :
          (req[p].pc = "upsert" /\ req'[p].pc = "insert")
          => \A c \in cameras :
                 c.channelID = Bind(req[p].ev.channelID) => c \in cameras']_vars

\* the upsert has met a camera that addCamera had assigned to a site, with
\* other columns than the upsert would write
C11_Witness ==
    \E p \in Procs :
        /\ req[p].pc = "insert" /\ req[p].seen
        /\ \E c \in cameras :
              /\ c.channelID = Bind(req[p].ev.channelID)
              /\ c.site_id = 1
              /\ c.macAddress # Bind(req[p].ev.macAddress)

\* C6: an ingestion request without license plate or without timestamp is
\* rejected on every ingestion endpoint, and it has created neither a camera
\* row nor an event row.
C6_RejectedIngestionCreatesNothing ==
    \A p \in Procs :
        ( /\ Done(p, "ingest") /\ req[p].ep \in HttpEndpoints
          /\ (req[p].ev.licensePlate = Undefined \/ req[p].ev.dateTime = Undefined) )
        => /\ req[p].status # 200
           /\ req[p].camsAdded = 0
           /\ req[p].evsAdded = 0

\* C7: every event row has a license plate and an event timestamp that are
\* neither null nor the empty string.
C7_EventHasPlateAndTimestamp ==
    \A e \in events :
        /\ e.licensePlate \notin {Null, ""}
        /\ e.dateTime \notin {Null, ""}

\* C8: an ingestion request that lacks channelID, dateTime, eventType or
\* licensePlate is answered 400 on every ingestion endpoint, and insertEvent
\* is not invoked for it.
C8_MissingFieldIs400 ==
    \A p \in Procs :
        ( /\ req[p].op = "ingest" /\ req[p].ep \in HttpEndpoints
          /\ \E f \in RequiredFields : req[p].ev[f] = Undefined )
        => /\ ~req[p].invoked
           /\ req[p].pc = "done" => req[p].status = 400

\* C9: a successful ingestion has created exactly one event row, and exactly
\* one camera row if its channelID had no camera row, none if it had one.
C9_OneCameraOneEvent ==
    \A p \in Procs :
        (Done(p, "ingest") /\ req[p].status = 200) =>
            /\ req[p].evsAdded = 1
            /\ req[p].camsAdded = (IF req[p].seen THEN 0 ELSE 1)

\* the second successful ingestion of a channelID: one camera row, two events
C9_Witness ==
    \E p \in Procs :
        /\ Done(p, "ingest") /\ req[p].status = 200
        /\ req[p].seen
        /\ Cardinality({c \in cameras : c.channelID = Bind(req[p].ev.channelID)}) = 1
        /\ Cardinality({e \in events : e.channelID = Bind(req[p].ev.channelID)}) = 2

\* C10: insertEvent resolves with the id of the event row it has inserted,
\* and the success response of the ingestion handler carries that id as
\* eventId.
C10_ReturnsNewEventId ==
    \A p \in Procs :
        ( /\ Done(p, "ingest") /\ req[p].ep \in {"hik", "hikV"}
          /\ req[p].status = 200 )
        => /\ req[p].result = req[p].lastID
           /\ req[p].eventId = req[p].lastID

\* C12: a request that has published a change notification (a store event or
\* the handler's broadcast) has committed its write: the connection has no
\* open transaction that holds the write and could still roll it back; an
\* ingestion that stored no event has published nothing.
C12_PublishedOnlyAfterCommit ==
    \A p \in Procs :
        req[p].pc = "done" =>
            /\ (req[p].emitted # "none" \/ req[p].broadcast # "none") => ~inTx
            /\ (req[p].op = "ingest" /\ req[p].evsAdded = 0) =>
                   (req[p].emitted = "none" /\ req[p].broadcast = "none")

\* a pending sendDashboardData call q has run to its ws.send in this step
Sends(q) ==
    /\ ~DbClosed
    /\ \E fail \in BOOLEAN : ReadSiteStatsAndSend(q, FALSE, fail)

\* one more sendDashboardData call is pending for client c after this step
PushInitiated(c) == CopiesIn(NewPush(c), push') = CopiesIn(NewPush(c), push) + 1

\* C13: the connection event initiates one snapshot push; an open connection
\* has its interval set, and every firing of the interval initiates one
\* snapshot push, whatever the tables hold.
C13_PushOnOpenAndOnEveryTick ==
    /\ [](\A c \in Clients : conn[c].state = "open" => conn[c].timer)
    /\ [][\A c \in Clients :
            (conn[c].state = "none" /\ conn'[c].state = "open") => PushInitiated(c)]_vars
    /\ [][\A c \in Clients : Tick(c) => PushInitiated(c)]_vars

\* a client that has its first snapshot has a push pending that only the
\* interval can have started: no request was ever made
C13_Witness ==
    \E c \in Clients :
        /\ conn[c].state = "open"
        /\ conn[c].last.type = "dashboard_update"
        /\ BagIn(NewPush(c), push)
        /\ events = {} /\ cameras = {}
        /\ \A p \in Procs : req[p].pc = "idle"

\* C14: a closed connection has no interval set, and no sendDashboardData
\* call reaches ws.send on a connection that is closed.
C14_NoSendAfterClose ==
    /\ [](\A c \in Clients : conn[c].state = "closed" => ~conn[c].timer)
    /\ [][\A q \in BagToSet(push) :
            Sends(q) => conn[q.client].state = "open"]_vars

\* C15: an ingestion that has stored its event is answered 200, and its
\* notification has reached every open connection other than one whose send
\* failed.
C15_SendFailureIsIsolated ==
    \A p \in Procs :
        (Done(p, "ingest") /\ req[p].ep = "hikV" /\ req[p].evsAdded = 1) =>
            /\ req[p].status = 200
            /\ (OpenClients \ {req[p].threw}) \subseteq req[p].delivered

\* C16: the last message a dashboard client has received is a
\* dashboard_update snapshot, never a bare site_update, camera_update or
\* event_update.
C16_OnlySnapshotsReachClients ==
    \A c \in Clients : conn[c].last.type \in {"none", "dashboard_update"}

\* C17: the step in which a request changes a table and the store emits its
\* notification initiates a snapshot push for every open connection.
C17_EveryNotificationPushes ==
    [][\A p \in Procs :
          ( /\ req[p].pc # "done" /\ req'[p].pc = "done"
            /\ req'[p].emitted # "none"
            /\ <<sites, cameras, events>>' # <<sites, cameras, events>> )
          => \A c \in OpenClients : PushInitiated(c)]_vars

\* C18: between two ticks of its interval a connection gets at most one
\* notification-triggered snapshot push.
C18_NotificationPushesCoalesced ==
    \A c \in Clients : conn[c].extra <= 1

\* C19: a snapshot delivered to an open connection carries the number of
\* events that are committed when it is delivered (here events are only
\* inserted, so it reflects every insert that has committed).
C19_SnapshotReflectsCommitted ==
    [][\A q \in BagToSet(push) :
          ( /\ Sends(q)
            /\ conn[q.client].state = "open"
            /\ conn'[q.client].last = Snapshot(q) )
          => q.total = Cardinality(events)]_vars

\* C20: clearInterval runs at most once per connection, a closed connection
\* has had it run once, and once shutdownServers has run no connection has
\* its interval set.
C20_TimerCancelledOnce ==
    \A c \in Clients :
        /\ conn[c].cleared <= 1
        /\ conn[c].state = "closed" => (conn[c].cleared = 1 /\ ~conn[c].timer)
        /\ srv # "running" => ~conn[c].timer

\* what a client can tell of its connection: socket state, interval, and
\* the last message it received
Visible(c) == <<conn[c].state, conn[c].timer, conn[c].cleared, conn[c].last>>

\* C21: a sendDashboardData call whose getEventStats or getSiteStats is
\* rejected sends nothing and leaves every connection and its interval as
\* they were; an open connection with a rejected fetch has its interval set,
\* and its next tick starts a fetch.
C21_FailedFetchIsRetried ==
    /\ [][\A q \in BagToSet(push) :
            (ReadEventStats(q, TRUE) \/ ReadSiteStatsAndSend(q, TRUE, FALSE))
            => \A c \in Clients : Visible(c)' = Visible(c)]_vars
    /\ [](\A c \in Clients :
            (conn[c].failed /\ conn[c].state = "open") => conn[c].timer)
    /\ [][\A c \in Clients : (conn[c].failed /\ Tick(c)) => PushInitiated(c)]_vars

\* the first fetch of a connection was rejected, the client has received
\* nothing, and a later fetch is pending
C21_Witness ==
    \E c \in Clients :
        /\ conn[c].failed
        /\ conn[c].state = "open" /\ conn[c].timer
        /\ conn[c].last.type = "none"
        /\ BagIn(NewPush(c), push)

\* the operations that take the id of one row to change or remove
ByIdOps == {"updateSite", "deleteSite", "updateCamera", "deleteCamera"}

\* C22: an updateSite, deleteSite, updateCamera or deleteCamera whose id
\* matched no row (its statement changed 0 rows) and that did not fail is
\* answered 404, never a success status.
C22_NoMatchIsNotFound ==
    \A p \in Procs :
        (/\ req[p].pc = "done"
         /\ req[p].op \in ByIdOps
         /\ req[p].status \notin {400, 500}
         /\ req[p].changes = 0)
        => req[p].status = 404

\* C23: every event row whose site_id is not null references a site row
\* that exists.
C23_EventSiteExists ==
    \A e \in events : e.site_id # NoId => \E s \in sites : s.id = e.site_id

\* the image role a multipart field name stands for
RoleOf ==
    ("licensePlateImage" :> "licensePlate") @@ ("licensePlate" :> "licensePlate") @@
    ("licensePlatePicture.jpg" :> "licensePlate") @@
    ("vehicleImage" :> "vehicle") @@ ("vehicle" :> "vehicle") @@
    ("vehiclePicture.jpg" :> "vehicle") @@
    ("detectionImage" :> "detection") @@ ("detection" :> "detection") @@
    ("detectionPicture.jpg" :> "detection")

Roles == {"licensePlate", "vehicle", "detection"}

\* the image reference slot of an event row for a role
Slot(e, r) ==
    CASE r = "licensePlate" -> e.licensePlateImage
      [] r = "vehicle" -> e.vehicleImage
      [] r = "detection" -> e.detectionImage

\* C24: the event row an ingestion request stored holds, for each image
\* role the request carried an attachment for under an accepted field name,
\* the stored filename of such an attachment, and NULL for every other role.
C24_ImageSlotsHoldStoredNames ==
    \A p \in Procs :
        (Done(p, "ingest") /\ req[p].evsAdded = 1) =>
            \A e \in events : e.id = req[p].lastID =>
                \A r \in Roles :
                    LET given == {f \in req[p].files : RoleOf[f] = r}
                    IN  IF given = {}
                          THEN Slot(e, r) = Null
                          ELSE Slot(e, r) \in {StoredName[f] : f \in given}

\* C25: after a DELETE /api/sites/:id that succeeded the site is gone and
\* every camera that referenced it when the delete began still exists, with
\* no site assigned.
C25_DeleteSiteDisassociatesCameras ==
    \A p \in Procs :
        (Done(p, "deleteSite") /\ req[p].status = 204) =>
            /\ ~\E s \in sites : s.id = req[p].id
            /\ \A c \in req[p].before.cameras :
                   c.site_id = req[p].id =>
                       \E d \in cameras : d.id = c.id /\ d.site_id = NoId

\* C26: within one ingestion call the camera statement has completed when
\* the event insert is issued (the camera of the event's channel is in the
\* table), an event row is only added by a call whose camera statement has
\* completed, and when the change notification of the call is published or
\* delivered its event row is in the table.
C26_UpsertThenInsertThenPublish ==
    /\ [](\A p \in Procs :
            (req[p].pc = "insert" /\ Bind(req[p].ev.channelID) # Null) =>
                \E c \in cameras : c.channelID = Bind(req[p].ev.channelID))
    /\ [][events' # events =>
            \E p \in Procs : req[p].pc = "insert" /\ req'[p].evsAdded = 1]_vars
    /\ [][\A p \in Procs :
            (\/ req'[p].emitted = "eventUpdate" /\ req[p].emitted # "eventUpdate"
             \/ req'[p].delivered # {} /\ req[p].delivered = {})
            => /\ req[p].pc = "insert"
               /\ \E e \in events' : e.id = req'[p].lastID]_vars

\* an ingestion call has added its camera and its event, and its change
\* notification was delivered to a dashboard client
C26_Witness ==
    \E p \in Procs :
        /\ Done(p, "ingest") /\ req[p].ep = "hikV" /\ req[p].status = 200
        /\ req[p].camsAdded = 1 /\ req[p].evsAdded = 1
        /\ req[p].emitted = "eventUpdate"
        /\ req[p].delivered # {}

\* C27: the ROLLBACK of a deleteSite undoes no write of another operation
\* that was reported as successful: no event row and no site row that is in
\* the tables and was not there when the transaction began is removed by it
\* (such a row was written by an insertEvent or createOrGetSite that resolved
\* in the step that wrote it).
C27_RollbackKeepsOtherWrites ==
    [][\A p \in Procs :
          Rollback(p) =>
              /\ (events \ req[p].before.events) \subseteq events'
              /\ (sites \ req[p].before.sites) \subseteq sites']_vars

\* C28: a deleteSite that starts while the deleteSite of a different site
\* is in progress is not rejected with the error of BEGIN TRANSACTION.
C28_DeleteSitesSerialized ==
    [][\A p \in Procs, i \in SiteIds :
          (/\ DeleteSiteBegin(p, i)
           /\ \E o \in Procs :
                 /\ req[o].op = "deleteSite" /\ req[o].pc \notin {"idle", "done"}
                 /\ req[o].id # i)
          => req'[p].err # "begin"]_vars

\* C29: every event row created through an HTTP ingestion endpoint has
\* site_id NULL, whatever the site of the camera with its channelID; no such
\* event is counted for a site, and the DELETE FROM events of a deleteSite
\* removes none of them.
C29_IngestedEventsHaveNoSite ==
    /\ [](\A p \in Procs :
            (req[p].op = "ingest" /\ req[p].ep \in HttpEndpoints) =>
                /\ req[p].sid = NoId
                /\ \A e \in events : e.id = req[p].lastID => e.site_id = NoId)
    /\ [](\A e \in events : e.site_id = NoId)
    /\ [](\A i \in SiteIds : Cardinality({e \in events : e.site_id = i}) = 0)
    /\ [][\A p \in Procs : DeleteEvents(p, FALSE) => events' = events]_vars

\* the site of a camera was deleted with the camera, and an event of the
\* channel of that camera, ingested before, is still in the table
C29_Witness ==
    \E p \in Procs :
        /\ Done(p, "deleteSite") /\ req[p].status = 204
        /\ \E c \in req[p].before.cameras, e \in req[p].before.events :
               /\ c.site_id = req[p].id
               /\ c.channelID = e.channelID
               /\ c \notin cameras
               /\ e \in events

\* C30: while a sendDashboardData call is between its getEventStats read and
\* its getSiteStats read, no statement changes table events, which both
\* reads query: the two parts of its message are read from one state.
C30_SnapshotReadsOneState ==
    [][(\E q \in BagToSet(push) : q.pc = "sites") => events' = events]_vars

====
